---- MODULE Spec2Model ----
(***************************************************************************)
(* Model of the log_hood Flutter plugin glue code.                         *)
(*                                                                         *)
(*   linux/log_hood_plugin.cc       the GObject plugin: registration on    *)
(*                                  the "log_hood" method channel and the  *)
(*                                  two-branch method-call dispatcher      *)
(*   windows/log_hood_plugin_c_api.cpp  the C entry point that forwards to *)
(*                                  LogHoodPlugin::RegisterWithRegistrar   *)
(*                                                                         *)
(* C strings are sequences of character codes; 0 is the NUL terminator.    *)
(***************************************************************************)
EXTENDS Integers, Sequences, FiniteSets, TLC

(***************************************************************************)
(* Bounds of the model.                                                    *)
(***************************************************************************)
MaxCalls == 2            \* method calls received by the messenger
MaxRegistrations == 2    \* calls of log_hood_plugin_register_with_registrar
MaxWinCalls == 4         \* calls of LogHoodPluginCApiRegisterWithRegistrar
UTS_LEN == 3             \* size of utsname.version (65 in <sys/utsname.h>)

NUL == 0

(***************************************************************************)
(* String literals of the source, as character codes.                      *)
(***************************************************************************)
\* "getPlatformVersion"
GET_PLATFORM_VERSION ==
  <<103, 101, 116, 80, 108, 97, 116, 102, 111, 114, 109,
    86, 101, 114, 115, 105, 111, 110>>

\* "Linux ", the text of the format "Linux %s" before the conversion
LINUX_PREFIX == <<76, 105, 110, 117, 120, 32>>

\* "log_hood"
CHANNEL_NAME == "log_hood"

(***************************************************************************)
(* Inputs.                                                                 *)
(***************************************************************************)
\* method names a caller may send: the exact name, the empty name, a name
\* differing only in letter case, a proper prefix, an extension ("...2")
MethodNames ==
  { GET_PLATFORM_VERSION,
    << >>,
    <<103, 101, 116, 112, 108, 97, 116, 102, 111, 114, 109,
      118, 101, 114, 115, 105, 111, 110>>,
    SubSeq(GET_PLATFORM_VERSION, 1, 11),
    GET_PLATFORM_VERSION \o <<50>> }

\* arguments a call may carry (an FlValue)
Args == {"null", "map"}

\* channels on the binary messenger
ChannelNames == {"log_hood", "other_channel"}

\* kernel version strings: "#1", "#2"
Versions == { <<35, 49>>, <<35, 50>> }

\* the state of the operating system: the kernel's version string and whether
\* the uname() system call succeeds (one state stands for a failing uname())
OSStates ==
  [version : Versions, uname_ok : {TRUE}] \cup
  { [version |-> <<35, 50>>, uname_ok |-> FALSE] }

\* registrar references handed to the Windows C API
RegistrarRefs == {"ref1", "ref2", "ref3"}

PluginIds == 1..MaxRegistrations
NoPlugin == 0

(***************************************************************************)
(* C string helpers.                                                       *)
(***************************************************************************)
\* a string literal / gchar* as stored: its characters and the terminator
CStr(s) == s \o <<NUL>>

RECURSIVE StrLenFrom(_, _)
StrLenFrom(buf, i) ==
  IF i > Len(buf) \/ buf[i] = NUL THEN 0 ELSE 1 + StrLenFrom(buf, i + 1)

\* the characters of the C string stored in buf, up to the first NUL
FromCStr(buf) == SubSeq(buf, 1, StrLenFrom(buf, 1))

RECURSIVE StrCmpFrom(_, _, _)
StrCmpFrom(a, b, i) ==
  IF a[i] = b[i] /\ a[i] # NUL THEN StrCmpFrom(a, b, i + 1) ELSE a[i] - b[i]

RECURSIVE StrNCmpFrom(_, _, _, _)
StrNCmpFrom(a, b, i, n) ==
  IF n = 0 THEN 0
  ELSE IF a[i] = b[i] /\ a[i] # NUL THEN StrNCmpFrom(a, b, i + 1, n - 1)
  ELSE a[i] - b[i]

\* variant: strncmp(a, b, strlen(b)), a prefix comparison
strcmp_prefix(a, b) == StrNCmpFrom(a, b, 1, StrLenFrom(b, 1))

\* strcmp on two NUL-terminated strings
strcmp(a, b) == StrCmpFrom(a, b, 1)

(***************************************************************************)
(* Responses (FlMethodResponse) and values (FlValue).                      *)
(***************************************************************************)
NoValue == [type |-> "none", str |-> << >>]

\* fl_value_new_string: copies the C string
fl_value_new_string(cstr) == [type |-> "string", str |-> FromCStr(cstr)]

fl_method_success_response_new(result) == [kind |-> "success", result |-> result]

fl_method_not_implemented_response_new == [kind |-> "not_implemented", result |-> NoValue]

\* the initial value of the handler's local: g_autoptr(...) response = nullptr
nullptr == [kind |-> "nullptr", result |-> NoValue]

(***************************************************************************)
(* get_platform_version                                                    *)
(***************************************************************************)
\* struct utsname uname_data = {}: the version field, zero-initialised
ZeroUtsVersion == [i \in 1..UTS_LEN |-> NUL]

\* variant: the version is read once and kept ("#1"), not queried per call
uname_cached(buf, os) ==
  [i \in 1..UTS_LEN |-> IF i <= 2 THEN <<35, 49>>[i] ELSE NUL]

\* uname(&uname_data): on success the kernel stores its version string,
\* NUL-terminated; on failure the buffer is left untouched
uname(buf, os) ==
  IF os.uname_ok
    THEN [i \in 1..UTS_LEN |-> IF i <= Len(os.version) THEN os.version[i] ELSE NUL]
    ELSE buf

\* variant: format "%s"
g_strdup_printf_NoPrefix(s) == CStr(FromCStr(s))

\* variant: format "Linux%s"
g_strdup_printf_NoSpace(s) == CStr(<<76, 105, 110, 117, 120>> \o FromCStr(s))

\* g_strdup_printf("Linux %s", s)
g_strdup_printf_Linux(s) == CStr(LINUX_PREFIX \o FromCStr(s))

\* variant: a failed uname() is reported as an error response
get_platform_version_checked(os) ==
  IF os.uname_ok
    THEN fl_method_success_response_new(
           fl_value_new_string(g_strdup_printf_Linux(uname(ZeroUtsVersion, os))))
    ELSE [kind |-> "error", result |-> NoValue]

get_platform_version(os) ==
  LET uname_data == uname(ZeroUtsVersion, os)
      version == g_strdup_printf_Linux(uname_data)
      result == fl_value_new_string(version)
  IN  fl_method_success_response_new(result)

(***************************************************************************)
(* log_hood_plugin_handle_method_call                                      *)
(***************************************************************************)
\* fl_method_call_get_name
fl_method_call_get_name(method_call) == CStr(method_call.name)

\* variant: a call that carries arguments is rejected
handle_method_call_response_args(method_call, os) ==
  IF strcmp(fl_method_call_get_name(method_call), CStr(GET_PLATFORM_VERSION)) = 0
       /\ method_call.args = "null"
    THEN get_platform_version(os)
    ELSE fl_method_not_implemented_response_new

\* the response the two-branch conditional assigns
handle_method_call_response(method_call, os) ==
  LET method == fl_method_call_get_name(method_call)
  IN  IF strcmp(method, CStr(GET_PLATFORM_VERSION)) = 0
        THEN get_platform_version(os)
        ELSE fl_method_not_implemented_response_new

\* variant: no else branch, and a null response is not sent
handle_method_call_no_fallback(self, method_call, os) ==
  IF strcmp(fl_method_call_get_name(method_call), CStr(GET_PLATFORM_VERSION)) = 0
    THEN << [call |-> method_call.id, self |-> self,
             response |-> get_platform_version(os)] >>
    ELSE << >>

\* the fl_method_call_respond invocations the handler makes, in order
log_hood_plugin_handle_method_call(self, method_call, os) ==
  << [call |-> method_call.id,
      self |-> self,
      response |-> handle_method_call_response(method_call, os)] >>

(***************************************************************************)
(* State.                                                                  *)
(***************************************************************************)
VARIABLES
  os,             \* the operating system's state, an element of OSStates
  engine_alive,   \* the binary messenger (and its channels) still exists
  handlers,       \* messenger: channel name -> installed method-call handler
  objects,        \* GObject heap: the LogHoodPlugin instances
  notified,       \* per plugin: invocations of the handler's destroy notify
  registrations,  \* completed log_hood_plugin_register_with_registrar calls
  ncalls,         \* method calls received so far
  responds,       \* per call: invocations of fl_method_call_respond
  last,           \* the last method call received and what happened to it
  observed,       \* (name, args, os, response) of the calls the plugin handled
  registrars_,    \* Windows PluginRegistrarManager: ref -> wrapper, 0 = none
  wrappers,       \* Windows: PluginRegistrarWindows wrappers created so far
  winCalls        \* Windows: invocations of LogHoodPlugin::RegisterWithRegistrar

linuxVars == <<os, engine_alive, handlers, objects, notified, registrations,
               ncalls, responds, last, observed>>
winVars == <<registrars_, wrappers, winCalls>>
vars == <<os, engine_alive, handlers, objects, notified, registrations,
          ncalls, responds, last, observed, registrars_, wrappers, winCalls>>

NoHandler == [installed |-> FALSE, user_data |-> NoPlugin]

NoCall ==
  [id |-> 0, channel |-> "none", name |-> << >>, args |-> "null",
   os |-> [version |-> << >>, uname_ok |-> FALSE],
   delivered |-> FALSE, self |-> NoPlugin, responses |-> << >>]

\* struct _LogHoodPlugin { GObject parent_instance; }: only the GObject header
Unallocated == [state |-> "unallocated", ref_count |-> 0]

Init ==
  /\ os \in OSStates
  /\ engine_alive = TRUE
  /\ handlers = [c \in ChannelNames |-> NoHandler]
  /\ objects = [p \in PluginIds |-> Unallocated]
  /\ notified = [p \in PluginIds |-> 0]
  /\ registrations = 0
  /\ ncalls = 0
  /\ responds = [c \in 1..MaxCalls |-> 0]
  /\ last = NoCall
  /\ observed = {}
  /\ registrars_ = [r \in RegistrarRefs |-> 0]
  /\ wrappers = 0
  /\ winCalls = << >>

(***************************************************************************)
(* GObject reference counting.                                             *)
(***************************************************************************)
\* g_object_new: a fresh instance holding one reference
g_object_new(objs, p) == [objs EXCEPT ![p] = [state |-> "live", ref_count |-> 1]]

g_object_ref(objs, p) == [objs EXCEPT ![p].ref_count = @ + 1]

\* g_object_unref: dropping the last reference disposes and frees the object
g_object_unref(objs, p) ==
  IF objs[p].ref_count = 1
    THEN [objs EXCEPT ![p] = [state |-> "freed", ref_count |-> 0]]
    ELSE [objs EXCEPT ![p].ref_count = @ - 1]

(***************************************************************************)
(* fl_method_channel_set_method_call_handler(channel, method_call_cb,      *)
(*                                           user_data, g_object_unref)    *)
(***************************************************************************)
\* the heap after the destroy notify (g_object_unref) of the handler that is
\* installed on `channel`, if any, has run
DestroyNotify(objs, hs, channel) ==
  IF hs[channel].installed THEN g_object_unref(objs, hs[channel].user_data) ELSE objs

NotifiedAfter(n, hs, channel) ==
  IF hs[channel].installed THEN [n EXCEPT ![hs[channel].user_data] = @ + 1] ELSE n

\* the handler table after the installation
set_method_call_handler(hs, channel, user_data) ==
  [hs EXCEPT ![channel] = [installed |-> TRUE, user_data |-> user_data]]

(***************************************************************************)
(* log_hood_plugin_register_with_registrar                                 *)
(***************************************************************************)
\* variant: another channel name
register_channel_name_other == "other_channel"

\* the channel name the registration passes to fl_method_channel_new
register_channel_name == CHANNEL_NAME

\* variant: the plugin is handed over without taking a reference
register_user_data_noref(objs, plugin) == objs

\* the user data the registration hands to the handler: g_object_ref(plugin)
register_user_data(objs, plugin) == g_object_ref(objs, plugin)

log_hood_plugin_register_with_registrar ==
  /\ engine_alive
  /\ registrations < MaxRegistrations
  /\ LET plugin == registrations + 1
         channel == register_channel_name
         o1 == g_object_new(objects, plugin)
         o2 == register_user_data(o1, plugin)
         \* installing replaces the previous handler of a channel of that name
         o3 == DestroyNotify(o2, handlers, channel)
         o4 == g_object_unref(o3, plugin)
     IN  /\ objects' = o4
         /\ notified' = NotifiedAfter(notified, handlers, channel)
         /\ handlers' = set_method_call_handler(handlers, channel, plugin)
  /\ registrations' = registrations + 1
  /\ UNCHANGED <<os, engine_alive, ncalls, responds, last, observed>>
  /\ UNCHANGED winVars

(***************************************************************************)
(* method_call_cb: the framework hands a received call to the handler      *)
(***************************************************************************)
\* every fl_method_call_respond sequence a handler run on a dangling plugin
\* pointer may produce (undefined behaviour)
AnyResponses(method_call) ==
  { << >> } \cup
  { << [call |-> method_call.id, self |-> NoPlugin, response |-> r] >> :
      r \in { fl_method_not_implemented_response_new, nullptr } }

\* the possible outcomes of method_call_cb(channel, method_call, user_data)
method_call_cb(objs, method_call, user_data, osNow) ==
  IF objs[user_data].state = "live"
    THEN { log_hood_plugin_handle_method_call(user_data, method_call, osNow) }
    ELSE AnyResponses(method_call)

\* a method call arrives on a channel that has a handler installed
ReceiveMethodCall(channel, name, args) ==
  /\ engine_alive
  /\ ncalls < MaxCalls
  /\ handlers[channel].installed
  /\ LET method_call == [id |-> ncalls + 1, name |-> name, args |-> args]
         user_data == handlers[channel].user_data
     IN  \E rs \in method_call_cb(objects, method_call, user_data, os) :
           /\ responds' = [responds EXCEPT ![method_call.id] = @ + Len(rs)]
           /\ last' = [id |-> method_call.id, channel |-> channel,
                       name |-> name, args |-> args, os |-> os,
                       delivered |-> TRUE, self |-> user_data,
                       responses |-> rs]
           /\ observed' = observed \cup
                { [name |-> name, args |-> args, os |-> os,
                   response |-> rs[i].response] : i \in 1..Len(rs) }
  /\ ncalls' = ncalls + 1
  /\ UNCHANGED <<os, engine_alive, handlers, objects, notified, registrations>>
  /\ UNCHANGED winVars

\* a method call arrives on a channel without a handler: the plugin never
\* sees it
ReceiveUnhandled(channel, name, args) ==
  /\ engine_alive
  /\ ncalls < MaxCalls
  /\ ~handlers[channel].installed
  /\ last' = [NoCall EXCEPT !.id = ncalls + 1, !.channel = channel]
  /\ ncalls' = ncalls + 1
  /\ UNCHANGED <<os, engine_alive, handlers, objects, notified, registrations,
                 responds, observed>>
  /\ UNCHANGED winVars

\* the kernel reports another version, or uname() starts or stops failing
OSChange ==
  /\ os' \in OSStates \ {os}
  /\ UNCHANGED <<engine_alive, handlers, objects, notified, registrations,
                 ncalls, responds, last, observed>>
  /\ UNCHANGED winVars

\* the engine shuts down: the messenger closes its channels, which removes
\* each handler and runs its destroy notify
RECURSIVE CloseAll(_, _, _)
CloseAll(objs, hs, channels) ==
  IF channels = {} THEN objs
  ELSE LET c == CHOOSE x \in channels : TRUE
       IN  CloseAll(DestroyNotify(objs, hs, c), hs, channels \ {c})

EngineShutdown ==
  /\ engine_alive
  /\ engine_alive' = FALSE
  /\ objects' = CloseAll(objects, handlers, ChannelNames)
  /\ notified' = [p \in PluginIds |->
                    notified[p] + Cardinality({c \in ChannelNames :
                        handlers[c].installed /\ handlers[c].user_data = p})]
  /\ handlers' = [c \in ChannelNames |-> NoHandler]
  /\ UNCHANGED <<os, registrations, ncalls, responds, last, observed>>
  /\ UNCHANGED winVars

(***************************************************************************)
(* Windows: LogHoodPluginCApiRegisterWithRegistrar                         *)
(***************************************************************************)
\* PluginRegistrarManager::GetRegistrar<PluginRegistrarWindows>(ref): the
\* wrapper registered for ref, created on first use
GetRegistrarMap(map, created, ref) ==
  IF map[ref] = 0 THEN [map EXCEPT ![ref] = created + 1] ELSE map

\* variant: the lookup ignores its argument
c_api_lookup_ref_first(registrar) == "ref1"

\* the registrar reference the C API looks up in the manager
c_api_lookup_ref(registrar) == registrar

\* the RegisterWithRegistrar invocations one C API call makes
c_api_invocations(map, registrar) ==
  << [ref |-> registrar, wrapper |-> map[c_api_lookup_ref(registrar)]] >>

LogHoodPluginCApiRegisterWithRegistrar(registrar) ==
  /\ Len(winCalls) < MaxWinCalls
  /\ LET ref == c_api_lookup_ref(registrar)
         map == GetRegistrarMap(registrars_, wrappers, ref)
     IN  /\ registrars_' = map
         /\ wrappers' = IF registrars_[ref] = 0 THEN wrappers + 1 ELSE wrappers
         /\ winCalls' = winCalls \o c_api_invocations(map, registrar)
  /\ UNCHANGED linuxVars

(***************************************************************************)
(* Specifications.                                                         *)
(***************************************************************************)
Next ==
  \/ log_hood_plugin_register_with_registrar
  \/ \E c \in ChannelNames, n \in MethodNames, a \in Args :
       ReceiveMethodCall(c, n, a)
  \/ \E c \in ChannelNames, n \in MethodNames, a \in Args :
       ReceiveUnhandled(c, n, a)
  \/ OSChange
  \/ EngineShutdown

Spec == Init /\ [][Next]_vars

WinNext == \E r \in RegistrarRefs : LogHoodPluginCApiRegisterWithRegistrar(r)

WinSpec == Init /\ [][WinNext]_vars

TypeOK ==
  /\ os \in OSStates
  /\ engine_alive \in BOOLEAN
  /\ registrations \in 0..MaxRegistrations
  /\ ncalls \in 0..MaxCalls
  /\ \A p \in PluginIds : objects[p].ref_count \in 0..2

(***************************************************************************)
(* Properties.                                                             *)
(***************************************************************************)

\* C1: a delivered call named exactly "getPlatformVersion" is answered with a
\* success response wrapping a string value, and the string is non-empty, in
\* every OS state, also when uname() fails and leaves the zeroed buffer.
C1_SuccessNonEmpty ==
  /\ (last.delivered /\ last.name = GET_PLATFORM_VERSION) =>
       /\ Len(last.responses) = 1
       /\ last.responses[1].response.kind = "success"
       /\ last.responses[1].response.result.type = "string"
       /\ Len(last.responses[1].response.result.str) > 0
  /\ \A o \in observed : o.name = GET_PLATFORM_VERSION =>
       /\ o.response.kind = "success"
       /\ o.response.result.type = "string"
       /\ o.response.result.str # << >>

C1_Witness ==
  /\ last.delivered
  /\ last.name = GET_PLATFORM_VERSION
  /\ ~last.os.uname_ok
  /\ Len(last.responses) = 1
  /\ last.responses[1].response.kind = "success"

\* C2: a delivered call whose name is not exactly "getPlatformVersion" (the
\* empty name, another letter case, a proper prefix, an extension) is
\* answered "not implemented" and never with a success response.
C2_NotImplemented ==
  /\ (last.delivered /\ last.name # GET_PLATFORM_VERSION) =>
       /\ Len(last.responses) = 1
       /\ last.responses[1].response = fl_method_not_implemented_response_new
  /\ \A o \in observed : o.name # GET_PLATFORM_VERSION =>
       /\ o.response.kind = "not_implemented"
       /\ o.response.kind # "success"

C2_Witness ==
  /\ last.delivered
  /\ last.name = GET_PLATFORM_VERSION \o <<50>>
  /\ Len(last.responses) = 1
  /\ last.responses[1].response.kind = "not_implemented"
  /\ \E o \in observed : o.name = SubSeq(GET_PLATFORM_VERSION, 1, 11)

\* C3: the string returned for getPlatformVersion is "Linux", one space, then
\* the version uname() reported at the time of the call (nothing, when
\* uname() reported nothing), with nothing before or after.
C3_Format ==
  (last.delivered /\ last.name = GET_PLATFORM_VERSION) =>
    /\ Len(last.responses) = 1
    /\ last.responses[1].response.result.str =
         <<76, 105, 110, 117, 120>> \o <<32>> \o
           (IF last.os.uname_ok THEN last.os.version ELSE << >>)

C3_Witness ==
  /\ last.delivered
  /\ last.name = GET_PLATFORM_VERSION
  /\ last.os = [version |-> <<35, 50>>, uname_ok |-> TRUE]
  /\ Len(last.responses) = 1
  /\ last.responses[1].response.result.str = <<76, 105, 110, 117, 120, 32, 35, 50>>

\* C4: the only non-success response the dispatcher produces is "not
\* implemented", only for an unrecognized name; getPlatformVersion never
\* yields an error response, also when uname() fails.
C4_OneErrorPath ==
  \A o \in observed :
    /\ o.response.kind \in {"success", "not_implemented"}
    /\ o.response.kind = "not_implemented" => o.name # GET_PLATFORM_VERSION
    /\ (o.name = GET_PLATFORM_VERSION /\ ~o.os.uname_ok) => o.response.kind = "success"

C4_Witness ==
  /\ \E o \in observed :
       o.name = GET_PLATFORM_VERSION /\ ~o.os.uname_ok /\ o.response.kind = "success"
  /\ \E o \in observed :
       o.name # GET_PLATFORM_VERSION /\ o.response.kind = "not_implemented"

\* C5: every call handed to the dispatcher is answered exactly once, with a
\* non-null response, within the handler step, on both branches; no call is
\* left unanswered and none is answered twice.
C5_RespondOnce ==
  /\ \A id \in 1..MaxCalls : responds[id] <= 1
  /\ last.delivered =>
       /\ responds[last.id] = 1
       /\ Len(last.responses) = 1
       /\ last.responses[1].call = last.id
       /\ last.responses[1].response # nullptr
       /\ last.responses[1].response.kind # "nullptr"

C5_Witness ==
  /\ ncalls = 2
  /\ responds[1] = 1
  /\ responds[2] = 1
  /\ \E o \in observed : o.response.kind = "success"
  /\ \E o \in observed : o.response.kind = "not_implemented"

\* C6: nothing is cached: a getPlatformVersion call answers with the OS
\* version current at that call, whatever calls came before, and handling a
\* call leaves the plugin objects (and the handler table) unchanged.
C6_NoCache ==
  [][ (ncalls' = ncalls + 1 /\ last'.delivered) =>
        /\ objects' = objects
        /\ handlers' = handlers
        /\ notified' = notified
        /\ last'.name = GET_PLATFORM_VERSION =>
             /\ Len(last'.responses) = 1
             /\ last'.responses[1].response.result.str =
                  LINUX_PREFIX \o (IF os.uname_ok THEN os.version ELSE << >>) ]_vars

C6_Witness ==
  /\ ncalls = 2
  /\ last.delivered
  /\ last.name = GET_PLATFORM_VERSION
  /\ last.os.uname_ok
  /\ \E o \in observed :
       /\ o.name = GET_PLATFORM_VERSION
       /\ o.os.uname_ok
       /\ o.os.version # last.os.version
       /\ o.response # last.responses[1].response

\* C7: registration creates one plugin object per call and attaches the
\* dispatcher to channel "log_hood": a call arriving on that channel is
\* delivered iff a registration has returned, to the plugin instance of the
\* latest registration; calls on other channels never reach the dispatcher.
C7_Registration ==
  [][ /\ Cardinality({p \in PluginIds : objects'[p].state # "unallocated"})
           = registrations'
      /\ (ncalls' = ncalls + 1) =>
           /\ last'.delivered <=> (last'.channel = CHANNEL_NAME /\ registrations >= 1)
           /\ last'.delivered =>
                /\ last'.self = registrations
                /\ Len(last'.responses) = 1
                /\ last'.responses[1].self = last'.self ]_vars

C7_Witness ==
  /\ registrations = 2
  /\ last.delivered
  /\ last.channel = CHANNEL_NAME
  /\ last.self = 2
  /\ ncalls = 2

\* C8: reference counting is balanced: the plugin installed as handler user
\* data is live with exactly one reference and has not been released; a
\* plugin is freed exactly when its handler's destroy notify has run, which
\* happens at most once; the dispatcher never runs on a freed plugin.
C8_RefCount ==
  /\ \A c \in ChannelNames : handlers[c].installed =>
       /\ objects[handlers[c].user_data].state = "live"
       /\ objects[handlers[c].user_data].ref_count = 1
       /\ notified[handlers[c].user_data] = 0
  /\ \A p \in PluginIds :
       /\ notified[p] <= 1
       /\ (objects[p].state = "freed") <=> (notified[p] = 1)
       /\ (objects[p].state = "live") <=>
            (\E c \in ChannelNames :
               handlers[c].installed /\ handlers[c].user_data = p)
  /\ last.delivered =>
       /\ objects[last.self].state # "unallocated"
       /\ Len(last.responses) = 1
       /\ last.responses[1].self = last.self

C8_Witness ==
  /\ objects[1].state = "freed"
  /\ notified[1] = 1
  /\ handlers[CHANNEL_NAME].installed
  /\ handlers[CHANNEL_NAME].user_data = 2
  /\ objects[2] = [state |-> "live", ref_count |-> 1]
  /\ last.delivered

\* C9: the response depends only on the method name and the OS state: two
\* handled calls with the same name in the same OS state got the same
\* response, whatever their arguments and whatever was handled before.
C9_FunctionOfNameAndOS ==
  \A a \in observed : \A b \in observed :
    (a.name = b.name /\ a.os = b.os) => a.response = b.response

C9_Witness ==
  \E a \in observed : \E b \in observed :
    /\ a.name = GET_PLATFORM_VERSION
    /\ a.name = b.name
    /\ a.os = b.os
    /\ a.args # b.args
    /\ a.response = b.response

\* C10: each LogHoodPluginCApiRegisterWithRegistrar(registrar) call invokes
\* LogHoodPlugin::RegisterWithRegistrar exactly once, with the wrapper the
\* PluginRegistrarManager holds for that same registrar reference, and
\* changes nothing else.
C10_CApiForward ==
  [][ /\ Len(winCalls') = Len(winCalls) + 1
      /\ SubSeq(winCalls', 1, Len(winCalls)) = winCalls
      /\ LET e == winCalls'[Len(winCalls')]
         IN  /\ e.wrapper # 0
             /\ e.wrapper = registrars_'[e.ref]
             /\ \A r \in RegistrarRefs \ {e.ref} : registrars_'[r] = registrars_[r]
             /\ registrars_[e.ref] # 0 => registrars_'[e.ref] = registrars_[e.ref]
      /\ linuxVars' = linuxVars ]_vars

C10_Witness ==
  /\ Len(winCalls) = 3
  /\ winCalls[1].ref = winCalls[3].ref
  /\ winCalls[1].wrapper = winCalls[3].wrapper
  /\ winCalls[2].ref # winCalls[1].ref
  /\ winCalls[2].wrapper # winCalls[1].wrapper

====
